---- MODULE Spec2Model ----
(***************************************************************************)
(* NAV scraper API (src/app.py): the Flask handlers get_nav and home and   *)
(* the CSV fetcher get_navs_from_csv, as a state machine over HTTP         *)
(* requests.  A request is received, blocks in requests.get while the      *)
(* origin answers, and is then answered.                                   *)
(*                                                                         *)
(* Python values are modelled as follows.                                  *)
(*   str            a sequence of one-character strings                    *)
(*   list element   [type, s]: type is the Python type name, s the text    *)
(*                  of a str (<<>> for the other types)                    *)
(*   dict           a sequence of [k, v] entries in insertion order, no    *)
(*                  key twice                                              *)
(*   None / float   [isnone, f]                                            *)
(***************************************************************************)
EXTENDS Integers, Sequences, FiniteSets, TLC

VARIABLES pc, route, body, tickers, outcome, response, fetches

vars == <<pc, route, body, tickers, outcome, response, fetches>>

\* ------------------------------------------------------------- bounds
MaxTickers == 2
MaxRows == 2
NumRequests == 2

Reqs == 1..NumRequests

SeqsUpTo(S, n) == UNION {[1..k -> S] : k \in 0..n}

\* ------------------------------------------------------------- str
UpperChar(c) == IF c = "a" THEN "A" ELSE IF c = "b" THEN "B" ELSE c

\* str.upper()
upper(s) == [i \in 1..Len(s) |-> UpperChar(s[i])]

IsSpace(c) == c = " "

RECURSIVE lstrip(_)
lstrip(s) == IF s # <<>> /\ IsSpace(Head(s)) THEN lstrip(Tail(s)) ELSE s

RECURSIVE rstrip(_)
rstrip(s) ==
    IF s # <<>> /\ IsSpace(s[Len(s)]) THEN rstrip(SubSeq(s, 1, Len(s) - 1)) ELSE s

\* str.strip()
strip(s) == rstrip(lstrip(s))

\* str.split(','): acc is the list of the parts so far, the last one open
RECURSIVE SplitFrom(_, _)
SplitFrom(s, acc) ==
    IF s = <<>> THEN acc
    ELSE IF Head(s) = ","
         THEN SplitFrom(Tail(s), Append(acc, <<>>))
         ELSE SplitFrom(Tail(s),
                        [acc EXCEPT ![Len(acc)] = Append(acc[Len(acc)], Head(s))])

split(s) == SplitFrom(s, << <<>> >>)

\* ------------------------------------------------------------- values
Str(s) == [type |-> "str", s |-> s]
IntElem == [type |-> "int", s |-> <<>>]
NoneElem == [type |-> "NoneType", s |-> <<>>]
ListElem == [type |-> "list", s |-> <<>>]

isinstance_str(e) == e.type = "str"

\* a list is the one unhashable element type
Hashable(e) == e.type # "list"

None == [isnone |-> TRUE, f |-> 0]
Float(n) == [isnone |-> FALSE, f |-> n]

\* ------------------------------------------------------------- dict
DictKeys(d) == {d[i].k : i \in 1..Len(d)}

\* d[k] = v
DictSet(d, k, v) ==
    IF k \in DictKeys(d)
    THEN [i \in 1..Len(d) |-> IF d[i].k = k THEN [k |-> k, v |-> v] ELSE d[i]]
    ELSE Append(d, [k |-> k, v |-> v])

\* d.get(k): None when the key is missing
DictGet(d, k) ==
    IF k \in DictKeys(d)
    THEN (CHOOSE e \in {d[i] : i \in 1..Len(d)} : e.k = k).v
    ELSE None

\* {ticker: None for ticker in tickers}
RECURSIVE NoneDictFrom(_, _)
NoneDictFrom(ts, acc) ==
    IF ts = <<>> THEN acc ELSE NoneDictFrom(Tail(ts), DictSet(acc, Head(ts), None))

NoneDict(ts) == NoneDictFrom(ts, <<>>)

\* ------------------------------------------------------------- the origin
\* What requests.get and pd.read_csv give: the call raises, the origin answers
\* with a status other than 200, or a table of rows whose header may lack a column.
RaiseOutcome == [kind |-> "raise", has_ticker_col |-> FALSE, has_nav_col |-> FALSE,
                 rows |-> <<>>]
StatusOutcome == [kind |-> "status", has_ticker_col |-> FALSE, has_nav_col |-> FALSE,
                  rows |-> <<>>]
Csv(tc, nc, rows) == [kind |-> "csv", has_ticker_col |-> tc, has_nav_col |-> nc,
                      rows |-> rows]
NoOutcome == [kind |-> "none", has_ticker_col |-> FALSE, has_nav_col |-> FALSE,
              rows |-> <<>>]

\* a NAV cell: a number, an empty cell (NaN) or a text that is no number
NumCell(n) == [kind |-> "num", n |-> n]
EmptyCell == [kind |-> "empty", n |-> 0]
TextCell == [kind |-> "text", n |-> 0]

pd_notna(cell) == cell.kind # "empty"

\* float(nav_value): ValueError on a text that is no number
float_raises(cell) == cell.kind = "text"
float_(cell) == cell.n

\* ------------------------------------------------------------- get_navs_from_csv
Tuple(nav, avail) == [kind |-> "tuple", nav |-> nav, avail |-> avail]
BareDict(nav) == [kind |-> "dict", nav |-> nav, avail |-> <<>>]
Raised == [kind |-> "raise", nav |-> <<>>, avail |-> <<>>]

\* line 39: return {ticker: None for ticker in tickers}  (no second component)
StatusReturn(ts) == BareDict(NoneDict(ts))

\* mutant: the except branch returns the bare dict, as line 39 does
ExceptReturnBare(ts) == BareDict(NoneDict(ts))

\* line 87, the except branch: the keys are the tickers as given
ExceptReturn(ts) ==
    IF \E i \in 1..Len(ts) : ~Hashable(ts[i])
    THEN Raised
    ELSE Tuple(NoneDict(ts), <<>>)

\* An empty 'Fund Ticker' cell is read as NaN; its text here is <<>>.
IsNanTicker(cell) == cell = <<>>

\* lines 50-51: with a NaN ticker cell available_tickers holds a float and
\* ', '.join(available_tickers) raises TypeError (when every cell is NaN the
\* column is numeric and .str raises AttributeError at line 50)
TickerColumnRaises(rows) == \E i \in 1..Len(rows) : IsNanTicker(rows[i].ticker)

\* df['Fund Ticker'].str.upper().unique().tolist()
RECURSIVE UniqueFrom(_, _)
UniqueFrom(rows, acc) ==
    IF rows = <<>> THEN acc
    ELSE LET u == upper(Head(rows).ticker)
         IN  UniqueFrom(Tail(rows),
                        IF \E i \in 1..Len(acc) : acc[i] = u THEN acc ELSE Append(acc, u))

AvailableTickers(rows) == UniqueFrom(rows, <<>>)

\* df[df['Fund Ticker'].str.upper() == ticker_upper], as row numbers; NaN
\* equals nothing
MatchingRows(rows, ticker_upper) ==
    {i \in 1..Len(rows) :
        ~IsNanTicker(rows[i].ticker) /\ upper(rows[i].ticker) = ticker_upper}

\* .iloc[0]
FirstRow(m) == CHOOSE i \in m : \A j \in m : i <= j

\* lines 61-79: the value stored for one ticker
NavOf(rows, ticker_upper) ==
    LET m == MatchingRows(rows, ticker_upper)
    IN  IF m # {}
        THEN LET nav_value == rows[FirstRow(m)].nav
             IN  IF pd_notna(nav_value)
                 THEN IF float_raises(nav_value) THEN None ELSE Float(float_(nav_value))
                 ELSE None
        ELSE None

\* mutant: float() is not guarded, so a NAV text that is no number ends the loop
RECURSIVE LookupLoopAbort(_, _, _)
LookupLoopAbort(ts, o, nav_data) ==
    IF ts = <<>> THEN [ok |-> TRUE, nav |-> nav_data]
    ELSE LET ticker == Head(ts)
         IN  IF ~isinstance_str(ticker)
             THEN [ok |-> FALSE, nav |-> <<>>]
             ELSE LET ticker_upper == upper(ticker.s)
                      m == MatchingRows(o.rows, ticker_upper)
                  IN  IF m # {} /\ ~o.has_nav_col
                      THEN [ok |-> FALSE, nav |-> <<>>]
                      ELSE IF m # {} /\ float_raises(o.rows[FirstRow(m)].nav)
                           THEN [ok |-> FALSE, nav |-> <<>>]
                           ELSE LookupLoopAbort(Tail(ts), o,
                                                DictSet(nav_data, Str(ticker_upper),
                                                        NavOf(o.rows, ticker_upper)))

\* lines 55-79, the loop; [ok |-> FALSE] when an iteration raises
RECURSIVE LookupLoop(_, _, _)
LookupLoop(ts, o, nav_data) ==
    IF ts = <<>> THEN [ok |-> TRUE, nav |-> nav_data]
    ELSE LET ticker == Head(ts)
         IN  IF ~isinstance_str(ticker)
             THEN [ok |-> FALSE, nav |-> <<>>]            \* ticker.upper()
             ELSE LET ticker_upper == upper(ticker.s)
                  IN  IF MatchingRows(o.rows, ticker_upper) # {} /\ ~o.has_nav_col
                      THEN [ok |-> FALSE, nav |-> <<>>]   \* matching_rows['NAV']
                      ELSE LookupLoop(Tail(ts), o,
                                      DictSet(nav_data, Str(ticker_upper),
                                              NavOf(o.rows, ticker_upper)))

get_navs_from_csv(ts, o) ==
    IF o.kind = "raise" THEN ExceptReturn(ts)
    ELSE IF o.kind = "status"
         THEN IF \E i \in 1..Len(ts) : ~Hashable(ts[i])
              THEN ExceptReturn(ts)
              ELSE StatusReturn(ts)
         ELSE IF ~o.has_ticker_col THEN ExceptReturn(ts)          \* df['Fund Ticker']
              ELSE IF TickerColumnRaises(o.rows) THEN ExceptReturn(ts)
              ELSE LET l == LookupLoop(ts, o, <<>>)
                   IN  IF l.ok THEN Tuple(l.nav, AvailableTickers(o.rows))
                       ELSE ExceptReturn(ts)

\* ------------------------------------------------------------- request bodies
\* The value of a key of the JSON body: [type, s, items].
StrValue(s) == [type |-> "str", s |-> s, items |-> <<>>]
ListValue(items) == [type |-> "list", s |-> <<>>, items |-> items]
IntValue == [type |-> "int", s |-> <<>>, items |-> <<>>]
NoneValue == [type |-> "NoneType", s |-> <<>>, items |-> <<>>]

\* request.json: no JSON body, null, a JSON list, or a JSON object.  For a JSON
\* list has_tickers / has_ticker say whether that word is one of its elements.
AbsentBody == [kind |-> "absent", has_tickers |-> FALSE, tickers |-> NoneValue,
               has_ticker |-> FALSE, ticker |-> NoneValue]
NullBody == [kind |-> "null", has_tickers |-> FALSE, tickers |-> NoneValue,
             has_ticker |-> FALSE, ticker |-> NoneValue]
ListBody(ht, h) == [kind |-> "list", has_tickers |-> ht, tickers |-> NoneValue,
                    has_ticker |-> h, ticker |-> NoneValue]
EmptyObject == [kind |-> "object", has_tickers |-> FALSE, tickers |-> NoneValue,
                has_ticker |-> FALSE, ticker |-> NoneValue]
TickersBody(v) == [kind |-> "object", has_tickers |-> TRUE, tickers |-> v,
                   has_ticker |-> FALSE, ticker |-> NoneValue]
TickerBody(v) == [kind |-> "object", has_tickers |-> FALSE, tickers |-> NoneValue,
                  has_ticker |-> TRUE, ticker |-> v]
BothBody(v, w) == [kind |-> "object", has_tickers |-> TRUE, tickers |-> v,
                   has_ticker |-> TRUE, ticker |-> w]

\* ------------------------------------------------------------- responses
\* The JSON answer and its HTTP status.  has_x says that the answer carries the
\* key x.  'message' is its fixed text (text) and, for an HTTP 200 answer, the
\* tickers it names (message); the text of 'details' is not modelled.
NoResponse == [status |-> 0, error |-> "", has_navData |-> FALSE, navData |-> <<>>,
               has_message |-> FALSE, text |-> "", message |-> <<>>,
               has_available |-> FALSE, available_tickers |-> <<>>,
               has_examples |-> FALSE, has_details |-> FALSE]

\* jsonify({'error': ..., 'message': ...}), 400
ErrorResponse(error, text) ==
    [NoResponse EXCEPT !.status = 400, !.error = error,
                       !.has_message = TRUE, !.text = text]

\* lines 136-139
InvalidTickers ==
    ErrorResponse("Invalid format", "tickers must be an array or comma-separated string")

\* lines 146-149
InvalidTicker == ErrorResponse("Invalid format", "ticker must be a string")

\* lines 152-160: this answer also carries 'examples'
MissingParameter ==
    [ErrorResponse("Missing parameter",
                   "Request must include either \"ticker\" or \"tickers\"")
        EXCEPT !.has_examples = TRUE]

\* lines 163-166
EmptyTickers == ErrorResponse("Empty tickers", "No tickers provided")

\* lines 195-198: jsonify({'error': ..., 'details': str(e)}), 500
InternalServerError ==
    [NoResponse EXCEPT !.status = 500, !.error = "Internal server error",
                       !.has_details = TRUE]

\* ord() of the characters of the texts
Ord(c) ==
    IF c = " " THEN 32 ELSE IF c = "," THEN 44 ELSE IF c = "A" THEN 65
    ELSE IF c = "B" THEN 66 ELSE IF c = "a" THEN 97 ELSE 98

\* x < y for two str
RECURSIVE StrLess(_, _)
StrLess(x, y) ==
    IF y = <<>> THEN FALSE
    ELSE IF x = <<>> THEN TRUE
    ELSE IF Head(x) = Head(y) THEN StrLess(Tail(x), Tail(y))
    ELSE Ord(Head(x)) < Ord(Head(y))

\* line 189: jsonify writes the keys of a dict in sorted order (the keys are str)
SortKeys(d) ==
    [i \in 1..Len(d) |->
        CHOOSE e \in {d[j] : j \in 1..Len(d)} :
            Cardinality({j \in 1..Len(d) : StrLess(d[j].k.s, e.k.s)}) = i - 1]

\* ------------------------------------------------------------- get_nav
\* lines 123-166: up to the call of get_navs_from_csv.  [fetch |-> TRUE] with the
\* ticker list when the call is reached, else the response returned before it.
Proceed(ts) == [fetch |-> TRUE, tickers |-> ts, resp |-> NoResponse]
Respond(resp) == [fetch |-> FALSE, tickers |-> <<>>, resp |-> resp]

\* [t.strip().upper() for t in data['tickers'].split(',') if t.strip()]
RECURSIVE CommaTickersFrom(_, _)
CommaTickersFrom(parts, acc) ==
    IF parts = <<>> THEN acc
    ELSE CommaTickersFrom(Tail(parts),
                          IF strip(Head(parts)) # <<>>
                          THEN Append(acc, Str(upper(strip(Head(parts)))))
                          ELSE acc)

CommaTickers(s) == CommaTickersFrom(split(s), <<>>)

\* line 162: if not tickers
NotEmptyCheck(ts) ==
    IF ts = <<>> THEN Respond(EmptyTickers) ELSE Proceed(ts)

get_nav_parse(b) ==
    IF b.kind = "absent" \/ b.kind = "null"
    THEN Respond(InternalServerError)          \* request.json / 'tickers' in None
    ELSE IF b.kind = "list"
         THEN IF b.has_tickers \/ b.has_ticker
              THEN Respond(InternalServerError)                \* data['tickers']
              ELSE Respond(MissingParameter)
         ELSE IF b.has_tickers
              THEN IF b.tickers.type = "list" THEN NotEmptyCheck(b.tickers.items)
                   ELSE IF b.tickers.type = "str"
                        THEN NotEmptyCheck(CommaTickers(b.tickers.s))
                        ELSE Respond(InvalidTickers)
              ELSE IF b.has_ticker
                   THEN IF b.ticker.type = "str"
                        THEN NotEmptyCheck(<<Str(upper(strip(b.ticker.s)))>>)
                        ELSE Respond(InvalidTicker)
                   ELSE Respond(MissingParameter)

\* line 183: [t.upper() for t in tickers if nav_data.get(t.upper()) is None]
RECURSIVE NotFoundFrom(_, _, _)
NotFoundFrom(ts, nav_data, acc) ==
    IF ts = <<>> THEN acc
    ELSE LET k == Str(upper(Head(ts).s))
         IN  NotFoundFrom(Tail(ts), nav_data,
                          IF DictGet(nav_data, k).isnone THEN Append(acc, k.s) ELSE acc)

\* mutant: nav_data.get(t), the key as requested
RECURSIVE NotFoundRawFrom(_, _, _)
NotFoundRawFrom(ts, nav_data, acc) ==
    IF ts = <<>> THEN acc
    ELSE NotFoundRawFrom(Tail(ts), nav_data,
                         IF DictGet(nav_data, Head(ts)).isnone
                         THEN Append(acc, upper(Head(ts).s)) ELSE acc)

NotFoundRaw(ts, nav_data) == NotFoundRawFrom(ts, nav_data, <<>>)

NotFound(ts, nav_data) == NotFoundFrom(ts, nav_data, <<>>)

\* lines 172-198: from the return of get_navs_from_csv to the response
get_nav_respond(ts, ret) ==
    IF ret.kind = "raise" THEN InternalServerError
    ELSE IF ret.kind = "dict"
         \* nav_data, available_tickers = <dict>: unpacks the keys.  With two keys
         \* nav_data is a str and line 183 fails (t.upper() or nav_data.get); with
         \* any other number of keys the unpacking itself fails.
         THEN InternalServerError
         ELSE IF \E i \in 1..Len(ts) : ~isinstance_str(ts[i])
              THEN InternalServerError                          \* t.upper()
              ELSE LET not_found == NotFound(ts, ret.nav)
                   IN  [NoResponse EXCEPT
                            !.status = 200,
                            !.has_navData = TRUE, !.navData = SortKeys(ret.nav),
                            !.has_message = (not_found # <<>>),
                            !.text = IF not_found # <<>>
                                     THEN "Some tickers not found: " ELSE "",
                            !.message = not_found,
                            !.has_available = (not_found # <<>>),
                            !.available_tickers =
                                IF not_found # <<>> THEN ret.avail ELSE <<>>]

\* ------------------------------------------------------------- home
\* lines 93-106.  available_tickers = <<>> stands for the text
\* 'Could not fetch at this time'.
home_respond(ret) ==
    LET supported_tickers == IF ret.kind = "tuple" THEN ret.avail ELSE <<>>
    IN  [NoResponse EXCEPT !.status = 200, !.has_available = TRUE,
                           !.available_tickers = supported_tickers]

\* ------------------------------------------------------------- inputs
\* texts of list elements
ElemStrings == { <<>>, <<"a">>, <<"A">>, <<"b">> }

StrElems == {Str(s) : s \in ElemStrings}
NonStrElems == {IntElem, NoneElem, ListElem}

\* 'tickers' lists: every list of texts, and lists holding an element of another type
TickerLists ==
    SeqsUpTo(StrElems, MaxTickers)
    \cup {<<e>> : e \in NonStrElems}
    \cup {<<Str(<<"a">>), e>> : e \in NonStrElems}
    \cup {<<e, Str(<<"a">>)>> : e \in NonStrElems}

\* texts of the 'ticker' key
TickerStrings == { <<>>, <<" ">>, <<"a">>, <<"A">>, <<"b">>, <<" ", "a", " ">>,
                   <<"a", "B">> }

\* texts of a comma-separated 'tickers' key
CommaStrings == { <<>>, <<",">>, <<" ", ",", " ">>, <<"a">>, <<"a", ",", "b">>,
                  <<"a", ",", "A">>, <<" ", "a", " ", ",", "B">>,
                  <<"a", ",", ",", "b">>, <<"b", ",", "a", ",">> }

Bodies ==
    {AbsentBody, NullBody, EmptyObject}
    \cup {ListBody(ht, h) : ht \in BOOLEAN, h \in BOOLEAN}
    \cup {TickersBody(ListValue(l)) : l \in TickerLists}
    \cup {TickersBody(StrValue(s)) : s \in CommaStrings}
    \cup {TickersBody(IntValue), TickersBody(NoneValue)}
    \cup {TickerBody(StrValue(s)) : s \in TickerStrings}
    \cup {TickerBody(IntValue), TickerBody(NoneValue), TickerBody(ListValue(<<>>))}
    \cup {BothBody(ListValue(<<>>), StrValue(<<"a">>)),
          BothBody(IntValue, StrValue(<<"a">>)),
          BothBody(StrValue(<<"b">>), IntValue)}

\* texts of a 'Fund Ticker' cell; <<>> is the empty cell
CellTickers == { <<"a">>, <<"A">>, <<"b">> }
NavCells == {NumCell(1), NumCell(2), EmptyCell, TextCell}
Rows == [ticker : CellTickers, nav : NavCells]
            \cup {[ticker |-> <<>>, nav |-> NumCell(2)]}

Outcomes ==
    {RaiseOutcome, StatusOutcome}
    \cup {Csv(TRUE, TRUE, rows) : rows \in SeqsUpTo(Rows, MaxRows)}
    \cup {Csv(FALSE, TRUE, <<>>),
          Csv(TRUE, FALSE, <<>>),
          Csv(TRUE, FALSE, <<[ticker |-> <<"a">>, nav |-> EmptyCell]>>),
          Csv(TRUE, FALSE, <<[ticker |-> <<"B">>, nav |-> EmptyCell]>>)}

\* the inputs of the concurrent specification
ConcBodies ==
    {EmptyObject,
     TickersBody(ListValue(<<Str(<<"a">>)>>)),
     TickersBody(ListValue(<<Str(<<"a">>), Str(<<"b">>)>>)),
     TickerBody(StrValue(<<"b">>))}

ConcOutcomes ==
    {RaiseOutcome, StatusOutcome,
     Csv(TRUE, TRUE, <<[ticker |-> <<"A">>, nav |-> NumCell(1)]>>),
     Csv(TRUE, TRUE, <<[ticker |-> <<"A">>, nav |-> NumCell(2)],
                       [ticker |-> <<"b">>, nav |-> TextCell]>>)}

\* ------------------------------------------------------------- the state machine
Init ==
    /\ pc = [r \in Reqs |-> "idle"]
    /\ route = [r \in Reqs |-> "none"]
    /\ body = [r \in Reqs |-> AbsentBody]
    /\ tickers = [r \in Reqs |-> <<>>]
    /\ outcome = [r \in Reqs |-> NoOutcome]
    /\ response = [r \in Reqs |-> NoResponse]
    /\ fetches = [r \in Reqs |-> 0]

\* mutant: an answer kept from a request with the same body is served again
PostGetNavCached(r, b) ==
    /\ pc[r] = "idle"
    /\ LET p == get_nav_parse(b)
           hit == {q \in Reqs : q # r /\ pc[q] = "done" /\ route[q] = "get_nav"
                                  /\ body[q] = b /\ response[q].status = 200}
       IN  IF hit # {}
           THEN /\ pc' = [pc EXCEPT ![r] = "done"]
                /\ tickers' = [tickers EXCEPT ![r] = p.tickers]
                /\ response' = [response EXCEPT ![r] = response[CHOOSE q \in hit : TRUE]]
                /\ fetches' = [fetches EXCEPT ![r] = 0]
           ELSE /\ pc' = [pc EXCEPT ![r] = IF p.fetch THEN "fetching" ELSE "done"]
                /\ tickers' = [tickers EXCEPT ![r] = p.tickers]
                /\ response' = [response EXCEPT ![r] = p.resp]
                /\ fetches' = [fetches EXCEPT ![r] = IF p.fetch THEN 1 ELSE 0]
    /\ route' = [route EXCEPT ![r] = "get_nav"]
    /\ body' = [body EXCEPT ![r] = b]
    /\ UNCHANGED outcome

\* POST /get-nav with body b: get_nav runs up to requests.get (line 35), or to
\* the response it returns before
PostGetNav(r, b) ==
    /\ pc[r] = "idle"
    /\ LET p == get_nav_parse(b)
       IN  /\ pc' = [pc EXCEPT ![r] = IF p.fetch THEN "fetching" ELSE "done"]
           /\ tickers' = [tickers EXCEPT ![r] = p.tickers]
           /\ response' = [response EXCEPT ![r] = p.resp]
           /\ fetches' = [fetches EXCEPT ![r] = IF p.fetch THEN 1 ELSE 0]
    /\ route' = [route EXCEPT ![r] = "get_nav"]
    /\ body' = [body EXCEPT ![r] = b]
    /\ UNCHANGED outcome

\* GET /: home calls get_navs_from_csv([]) and runs up to requests.get
GetHome(r) ==
    /\ pc[r] = "idle"
    /\ pc' = [pc EXCEPT ![r] = "fetching"]
    /\ route' = [route EXCEPT ![r] = "home"]
    /\ fetches' = [fetches EXCEPT ![r] = 1]
    /\ UNCHANGED <<body, tickers, outcome, response>>

\* requests.get returns or raises with outcome o; the handler runs to its response
OriginReply(r, o) ==
    /\ pc[r] = "fetching"
    /\ pc' = [pc EXCEPT ![r] = "done"]
    /\ outcome' = [outcome EXCEPT ![r] = o]
    /\ response' = [response EXCEPT ![r] =
           IF route[r] = "home"
           THEN home_respond(get_navs_from_csv(<<>>, o))
           ELSE get_nav_respond(tickers[r], get_navs_from_csv(tickers[r], o))]
    /\ UNCHANGED <<route, body, tickers, fetches>>

\* the response is sent; nothing of the request is kept
Close(r) ==
    /\ pc[r] = "done"
    /\ pc' = [pc EXCEPT ![r] = "idle"]
    /\ route' = [route EXCEPT ![r] = "none"]
    /\ body' = [body EXCEPT ![r] = AbsentBody]
    /\ tickers' = [tickers EXCEPT ![r] = <<>>]
    /\ outcome' = [outcome EXCEPT ![r] = NoOutcome]
    /\ response' = [response EXCEPT ![r] = NoResponse]
    /\ fetches' = [fetches EXCEPT ![r] = 0]

\* one client: requests arrive one after the other
Next ==
    \/ \E b \in Bodies : PostGetNav(1, b)
    \/ GetHome(1)
    \/ \E o \in Outcomes : OriginReply(1, o)
    \/ Close(1)

Spec == Init /\ [][Next]_vars

\* NumRequests requests in flight at once
ConcNext ==
    \E r \in Reqs :
        \/ \E b \in ConcBodies : PostGetNav(r, b)
        \/ GetHome(r)
        \/ \E o \in ConcOutcomes : OriginReply(r, o)
        \/ Close(r)

ConcSpec == Init /\ [][ConcNext]_vars

\* ------------------------------------------------------------- properties
\* a POST /get-nav request that has been answered
Answered(r) == pc[r] = "done" /\ route[r] = "get_nav"

Answered200(r) == Answered(r) /\ response[r].status = 200

AllStr(ts) == \A i \in 1..Len(ts) : ts[i].type = "str"

\* two texts that differ at most in letter case
SameTicker(x, y) ==
    /\ Len(x) = Len(y)
    /\ \A i \in 1..Len(x) : UpperChar(x[i]) = UpperChar(y[i])

IsUpperCase(x) == \A i \in 1..Len(x) : x[i] # "a" /\ x[i] # "b"

Entries(d) == {d[i] : i \in 1..Len(d)}

\* the origin answered with a table that has both columns
Parsed(o) == o.kind = "csv" /\ o.has_ticker_col /\ o.has_nav_col

\* the rows of the table whose ticker is t up to letter case
RowsOf(o, t) ==
    {j \in 1..Len(o.rows) : o.rows[j].ticker # <<>> /\ SameTicker(o.rows[j].ticker, t)}

\* a NAV cell as a reported value
Reported(cell) == IF cell.kind = "num" THEN Float(cell.n) ELSE None

\* C1: every HTTP 200 answer of POST /get-nav has exactly one navData entry per
\* distinct requested ticker, tickers that differ only in letter case being one.
C1_OneEntryPerDistinctTicker ==
    \A r \in Reqs :
        Answered200(r) =>
            Len(response[r].navData) =
                Cardinality({upper(tickers[r][i].s) : i \in 1..Len(tickers[r])})

\* C2: when the origin fetch raises, a request with a non-empty list of string
\* tickers is answered with HTTP 200 and every requested ticker mapped to null.
C2_FetchRaisesAllNull ==
    \A r \in Reqs :
        (Answered(r) /\ outcome[r].kind = "raise" /\ AllStr(tickers[r])) =>
            /\ response[r].status = 200
            /\ response[r].has_navData
            /\ \A e \in Entries(response[r].navData) : e.v.isnone
            /\ \A i \in 1..Len(tickers[r]) :
                   \E e \in Entries(response[r].navData) :
                       SameTicker(e.k.s, tickers[r][i].s)

C2_Witness ==
    /\ Answered(1) /\ outcome[1].kind = "raise"
    /\ Len(tickers[1]) = 2 /\ AllStr(tickers[1])
    /\ tickers[1][1] # tickers[1][2]
    /\ response[1].status = 200
    /\ Len(response[1].navData) = 2

\* C3: a non-200 status of the origin is treated like a transport failure: POST
\* /get-nav is answered with HTTP 200 and every requested ticker mapped to null,
\* and GET / is answered with HTTP 200.
C3_OriginStatusAllNull ==
    \A r \in Reqs :
        (pc[r] = "done" /\ outcome[r].kind = "status"
            /\ (route[r] = "get_nav" =>
                   /\ AllStr(tickers[r])
                   /\ \A i \in 1..Len(tickers[r]) : tickers[r][i].s # <<>>)) =>
            /\ response[r].status = 200
            /\ route[r] = "get_nav" =>
                   /\ \A e \in Entries(response[r].navData) : e.v.isnone
                   /\ \A i \in 1..Len(tickers[r]) :
                          \E e \in Entries(response[r].navData) :
                              SameTicker(e.k.s, tickers[r][i].s)

\* the body's ticker field is missing or empty
Blank(s) == \A i \in 1..Len(s) : s[i] = " "
OnlyCommasAndBlanks(s) == \A i \in 1..Len(s) : s[i] = " " \/ s[i] = ","

EmptyTickerField(b) ==
    /\ b.kind = "object"
    /\ \/ ~b.has_tickers /\ ~b.has_ticker
       \/ b.has_tickers /\ b.tickers.type = "list"
              /\ \A i \in 1..Len(b.tickers.items) : b.tickers.items[i] = Str(<<>>)
       \/ b.has_tickers /\ b.tickers.type = "str" /\ OnlyCommasAndBlanks(b.tickers.s)
       \/ ~b.has_tickers /\ b.has_ticker /\ b.ticker.type = "str" /\ Blank(b.ticker.s)

\* C4: a POST /get-nav request whose ticker field is missing or empty is answered
\* with HTTP 400 and performs no origin fetch.
C4_EmptyTickerField400 ==
    \A r \in Reqs :
        (route[r] = "get_nav" /\ EmptyTickerField(body[r])) =>
            /\ pc[r] = "done"
            /\ response[r].status = 400
            /\ fetches[r] = 0

\* the body has the wrong type
WrongType(b) ==
    \/ b.kind # "object"
    \/ b.has_tickers /\ b.tickers.type # "list" /\ b.tickers.type # "str"
    \/ b.has_tickers /\ b.tickers.type = "list" /\ ~AllStr(b.tickers.items)
    \/ ~b.has_tickers /\ b.has_ticker /\ b.ticker.type # "str"

\* C5: every POST /get-nav request whose body has the wrong type is answered with
\* HTTP 400 and an error description, never with HTTP 500 or 200.
C5_WrongType400 ==
    \A r \in Reqs :
        (Answered(r) /\ WrongType(body[r])) =>
            response[r].status = 400 /\ response[r].error # ""

\* C6: when the CSV is fetched and parsed, the value reported for a requested
\* ticker is the NAV of the first row, in file order, whose 'Fund Ticker' equals
\* it up to letter case (null when that cell is empty or no number, or when no
\* row matches).
C6_FirstMatchingRow ==
    \A r \in Reqs :
        (Answered(r) /\ Parsed(outcome[r]) /\ AllStr(tickers[r])) =>
            \A i \in 1..Len(tickers[r]) :
                LET t == tickers[r][i].s
                    m == RowsOf(outcome[r], t)
                    want == IF m = {} THEN None
                            ELSE Reported(outcome[r].rows[
                                     CHOOSE j \in m : \A k \in m : j <= k].nav)
                IN  /\ \E e \in Entries(response[r].navData) : SameTicker(e.k.s, t)
                    /\ \A e \in Entries(response[r].navData) :
                           SameTicker(e.k.s, t) => e.v = want

\* the requested ticker has no usable NAV in the table
SoftFailure(o, t) ==
    LET m == RowsOf(o, t)
    IN  m = {} \/ o.rows[CHOOSE j \in m : \A k \in m : j <= k].nav.kind # "num"

\* the answer to a request for the one ticker t against the same origin answer
Alone(t, o) == get_nav_respond(<<t>>, get_navs_from_csv(<<t>>, o))

\* C7: in a batch against a parsed CSV the answer is HTTP 200; a ticker with no
\* row, or with an empty or non-numeric NAV cell, is mapped to null, and every
\* requested ticker has the value it has when requested alone.
C7_SoftFailuresIsolated ==
    \A r \in Reqs :
        (Answered(r) /\ Parsed(outcome[r]) /\ AllStr(tickers[r])) =>
            /\ response[r].status = 200
            /\ \A i \in 1..Len(tickers[r]) :
                   LET t == tickers[r][i]
                       alone == Alone(t, outcome[r])
                   IN  /\ alone.status = 200
                       /\ Len(alone.navData) = 1
                       /\ \E e \in Entries(response[r].navData) :
                              /\ SameTicker(e.k.s, t.s)
                              /\ e.v = alone.navData[1].v
                              /\ SoftFailure(outcome[r], t.s) => e.v.isnone

\* a batch of two tickers, the first a soft failure, the second with a NAV
C7_Witness ==
    /\ Answered200(1) /\ Parsed(outcome[1])
    /\ Len(tickers[1]) = 2 /\ AllStr(tickers[1])
    /\ SoftFailure(outcome[1], tickers[1][1].s)
    /\ RowsOf(outcome[1], tickers[1][1].s) # {}
    /\ ~SoftFailure(outcome[1], tickers[1][2].s)
    /\ Len(response[1].navData) = 2
    /\ response[1].navData[1].v.isnone
    /\ ~response[1].navData[2].v.isnone

\* C8: every key of navData in an HTTP 200 answer is the uppercase form of a
\* requested ticker.
C8_KeysUppercase ==
    \A r \in Reqs :
        Answered200(r) =>
            \A e \in Entries(response[r].navData) :
                /\ IsUpperCase(e.k.s)
                /\ \E i \in 1..Len(tickers[r]) : SameTicker(e.k.s, tickers[r][i].s)

\* C9: an HTTP 200 answer carries 'message' and 'available_tickers' exactly when
\* some requested ticker is mapped to null, and the tickers named in the message
\* are the requested tickers mapped to null.
C9_MessageIffSomeNull ==
    \A r \in Reqs :
        Answered200(r) =>
            LET nulls == {e \in Entries(response[r].navData) : e.v.isnone}
                named == {response[r].message[i] : i \in 1..Len(response[r].message)}
            IN  /\ response[r].has_message <=> nulls # {}
                /\ response[r].has_available <=> nulls # {}
                /\ ~response[r].has_message => response[r].message = <<>>
                /\ named =
                       {upper(tickers[r][i].s) : i \in
                           {i \in 1..Len(tickers[r]) :
                               \E e \in nulls : SameTicker(e.k.s, tickers[r][i].s)}}

\* a lower-case list request, one ticker with a NAV and one without
C9_Witness ==
    /\ Answered200(1) /\ Parsed(outcome[1])
    /\ body[1].tickers.type = "list"
    /\ tickers[1] = <<Str(<<"a">>), Str(<<"b">>)>>
    /\ ~response[1].navData[1].v.isnone
    /\ response[1].navData[2].v.isnone
    /\ response[1].has_message
    /\ response[1].message = << <<"B">> >>

C9_WitnessNoMessage ==
    /\ Answered200(1) /\ Parsed(outcome[1])
    /\ tickers[1] = <<Str(<<"a">>)>>
    /\ ~response[1].has_message

\* C10: every request that reaches the fetch performs exactly one origin fetch of
\* its own and a request answered before it performs none; the answer of a
\* request is determined by its own body and the origin's answer to its own fetch.
C10_IndependentRequests ==
    /\ \A r \in Reqs :
           /\ pc[r] = "fetching" => fetches[r] = 1 /\ outcome[r] = NoOutcome
           /\ pc[r] = "done" =>
                  /\ fetches[r] = IF outcome[r] = NoOutcome THEN 0 ELSE 1
                  /\ outcome[r] = NoOutcome =>
                         response[r].status = 400 \/ response[r].status = 500
                  /\ response[r].status = 200 => outcome[r] # NoOutcome
    /\ \A r \in Reqs, q \in Reqs :
           (pc[r] = "done" /\ pc[q] = "done" /\ route[r] = route[q]
               /\ body[r] = body[q] /\ outcome[r] = outcome[q]) =>
               response[r] = response[q]

\* two identical requests answered at once from different origin answers
C10_Witness ==
    /\ Answered200(1) /\ Answered200(2)
    /\ body[1] = body[2]
    /\ outcome[1] # outcome[2]
    /\ response[1] # response[2]
    /\ fetches[1] = 1 /\ fetches[2] = 1

====
